---- MODULE Spec2Model ----
(***************************************************************************)
(* Network provisioning and connectivity supervisor of the wake-word       *)
(* firmware: the credential store (NVS namespace "wifi"), the captive      *)
(* portal (bluetooth_provisioning.cpp), the supervisor (main.cpp), the     *)
(* Wi-Fi manager (WiFiManager.cpp) and the MQTT manager (MQTTManager.cpp). *)
(*                                                                         *)
(* Three FreeRTOS contexts are interleaved: the main task (pc), the HTTP   *)
(* server task (hpc) and the default event loop task (evq).                *)
(* An optional C value (a record that may be absent, a nullable pointer)   *)
(* is a sequence of length 0 or 1.  A float is kept in hundredths.         *)
(***************************************************************************)
EXTENDS Integers, Sequences, FiniteSets, TLC

\* ------------------------------------------------------------- bounds
\* Boots (power-on, panic reboot or esp_restart) followed in one behaviour.
MaxBoots == 2
\* Portal requests accepted in one boot.
MaxReqs == 2
\* Iterations of the polling loop of test_wifi_connection that are followed
\* (the code's 10000 ms timeout is TestPolls * PollMs here).
TestPolls == 2

\* Largest content length of a POST /connect; it exceeds the handler's
\* 512-byte buffer.
MaxContentLen == 514
\* Events waiting in the default event loop's queue.
MaxQueue == 1
\* MQTT events delivered in one behaviour of SpecMqtt.
MaxMsgs == 3

\* ------------------------------------------------ program constants
PollMs == 100
max_attempts == 5
WIFI_RETRY_ATTEMPT == 3
\* detection_threshold = 0.6f, recording_duration = 5000
InitThreshold == 60
InitRecordMs == 5000
\* handleConfigMessage's defaults: 5000 and 0.75f
DefaultRecordMs == 5000
DefaultMinConf == 75
\* vTaskDelay(pdMS_TO_TICKS(3000)) between stored-credential attempts
RetryDelayMs == 3000

\* ------------------------------------------------------ environment
\* Credentials at the limits of the record: SSIDs of 2, 31 and 32 bytes,
\* passwords of 63 and 64 bytes.
Ssid2 == "ab"
Ssid31 == "N012345678901234567890123456789"
Ssid32 == "N012345678901234567890123456789x"
Pw63 == "P012345678901234567890123456789012345678901234567890123456789ab"
Pw64 == "P012345678901234567890123456789012345678901234567890123456789abx"

\* The networks the station can join (an address is assigned only for these).
Joinable(cfg) ==
    \/ cfg.ssid = "home" /\ cfg.password = "pw"
    \/ cfg.ssid = "x" /\ cfg.password = ""
    \/ cfg.ssid = Ssid31 /\ cfg.password = Pw63

\* Bodies of POST /connect: whether httpd_req_recv delivered it, whether it
\* parses as JSON, and the string-valued "ssid" and "password" members.
ConnectBodies ==
    { [recv |-> FALSE, json |-> FALSE, ssid |-> <<>>, password |-> <<>>],
      [recv |-> TRUE, json |-> FALSE, ssid |-> <<>>, password |-> <<>>],
      [recv |-> TRUE, json |-> TRUE, ssid |-> <<>>, password |-> <<"pw">>],
      [recv |-> TRUE, json |-> TRUE, ssid |-> <<"">>, password |-> <<>>],
      [recv |-> TRUE, json |-> TRUE, ssid |-> <<"x">>, password |-> <<>>],
      [recv |-> TRUE, json |-> TRUE, ssid |-> <<"home">>, password |-> <<"pw">>],
      [recv |-> TRUE, json |-> TRUE, ssid |-> <<"away">>, password |-> <<"pw">>] }

NoBody == [recv |-> FALSE, json |-> FALSE, ssid |-> <<>>, password |-> <<>>]

\* The record of namespace "wifi": each key absent (<<>>) or holding a string.
NoCreds == [ssid |-> <<>>, password |-> <<>>]
HomeCreds == [ssid |-> <<"home">>, password |-> <<"pw">>]

\* A response: its handler, the HTTP status, and what its JSON body holds
\* ("success", the "networks" array, the two flags of /status), with what
\* the handler was given: the request body, the outcome of the scan, the
\* store as it was when the request arrived, and whether an address had been
\* assigned to the station by then.
NoResp == [kind |-> "none", code |-> 0, success |-> <<>>, networks |-> <<>>,
           status |-> <<>>, body |-> NoBody, scan |-> <<>>,
           store_before |-> NoCreds, got_ip |-> <<>>]

\* What esp_wifi_scan_get_ap_records can return.
HomeAp == [ssid |-> "home", rssi |-> -40, auth |-> TRUE]
OpenAp == [ssid |-> "x", rssi |-> -70, auth |-> FALSE]
ScanResults == {<<>>, <<HomeAp>>, <<HomeAp, OpenAp>>}

\* The station interface: "stopped", "idle", "connecting" or "connected".
NoSta == [st |-> "stopped", cfg |-> <<>>]

\* Config.hpp:17, the identifier setup_connectivity gives to
\* MQTTManager::initialize and app_main writes into alerts.
DEVICE_ID == "esp32_wwd_001"

\* The station MAC address (six bytes) esp_read_mac returns on the device
\* followed; it is burnt into the chip.
FactoryMac == <<36, 10, 196, 171, 205, 239>>

\* A byte in two lower-case hexadecimal digits.
hex2(b) ==
    SubSeq("0123456789abcdef", (b \div 16) + 1, (b \div 16) + 1)
      \o SubSeq("0123456789abcdef", (b % 16) + 1, (b % 16) + 1)

\* generate_device_id: the chip id is the uint32_t made of the last four
\* bytes of the MAC (kept here as its bytes, most significant first), printed
\* by snprintf("esp32_wwd_%08lx") in eight hexadecimal digits.
chipid(m) == <<m[3], m[4], m[5], m[6]>>
generate_device_id(m) ==
    "esp32_wwd_" \o hex2(chipid(m)[1]) \o hex2(chipid(m)[2])
                 \o hex2(chipid(m)[3]) \o hex2(chipid(m)[4])

\* start_wifi_ap_provisioning, line 450: the access point's SSID ends in the
\* last four characters of device_id.
ap_ssid_of(id) == "WakeGuard-Setup-" \o SubSeq(id, Len(id) - 3, Len(id))

\* strncpy(dst, src, n) into a zeroed buffer: at most n characters.
strncpy(src, n) == IF Len(src) <= n THEN src ELSE SubSeq(src, 1, n)

\* MQTT topics, as sequences of path segments.  topic_config is
\* "config/<device id>"; initialize() is only called with DEVICE_ID.
topic_config == <<"config", DEVICE_ID>>
Topics == {<<>>, <<"config">>, <<"config", DEVICE_ID>>, <<"alerts", DEVICE_ID>>,
           <<"config", DEVICE_ID, "x">>}

\* Configuration payloads: whether the text parses as JSON, and its numeric
\* "record_ms" and "min_conf" members (min_conf in hundredths).
ConfigPayloads ==
    { [json |-> FALSE, record_ms |-> <<>>, min_conf |-> <<>>],
      [json |-> TRUE, record_ms |-> <<>>, min_conf |-> <<>>],
      [json |-> TRUE, record_ms |-> <<7000>>, min_conf |-> <<>>],
      [json |-> TRUE, record_ms |-> <<>>, min_conf |-> <<90>>],
      [json |-> TRUE, record_ms |-> <<3000>>, min_conf |-> <<50>>] }

\* Topics the device publishes on, and the last message given to the MQTT
\* client on each (absent, or its payload, QoS and retain flag).
topic_alerts == <<"alerts", DEVICE_ID>>
topic_status == <<"devices", DEVICE_ID, "status">>
topic_heartbeat == <<"devices", DEVICE_ID, "hb">>
NoSent == [alerts |-> <<>>, status |-> <<>>, hb |-> <<>>]

NoMsg == [topic |-> <<>>, payload |-> [json |-> FALSE, record_ms |-> <<>>,
                                      min_conf |-> <<>>]]

VARIABLES
    boots,            \* boots so far
    reset_reason,     \* how the current boot began
    pc,               \* position of the main task in app_main
    prov_caller,      \* who called start_wifi_ap_provisioning
    store,            \* NVS namespace "wifi" (survives a reset)
    wifi_configured,  \* bluetooth_provisioning.cpp:37
    server,           \* the httpd handle is non-NULL
    httpd_starts,     \* successful httpd_start calls in this boot
    httpd_stops,      \* httpd_stop calls in this boot
    ev_loop,          \* the default event loop exists
    wifi_mode,        \* "NULL", "APSTA" or "STA"
    handlers,         \* registered handler sets: "prov", "mgr"
    sta,              \* station interface: state and configuration
    evq,              \* events posted to the default event loop
    hpc,              \* position of the HTTP task in connect_handler
    req,              \* body of the POST /connect being handled
    req_store,        \* the store when that request arrived
    timeout,          \* test_wifi_connection's countdown
    success,          \* test_wifi_connection's result
    nreq,             \* requests accepted in this boot
    resp,             \* the last response sent
    has_wifi,         \* setup_connectivity's has_stored_wifi() result
    connection_attempts, \* main.cpp:86
    exhausted,        \* this boot used up its stored-credential attempts
    prev_exhausted,   \* the boot before this one did
    bits,             \* s_wifi_event_group
    wifi_retry_count, \* WiFiManager.cpp:11
    client,           \* MQTTManager::client is non-NULL
    config_callback,  \* MQTTManager::config_callback is set
    mqtt_connected,   \* MQTTManager::connected
    mqtt_started,     \* esp_mqtt_client_start succeeded
    cfg_msg,          \* the last MQTT data event: topic and payload
    recording_duration,  \* main.cpp:21
    detection_threshold, \* main.cpp:20, in hundredths
    cb_calls,         \* invocations of the configuration callback
    nmsg,             \* MQTT events delivered
    stored_ssid,      \* WiFiManager::stored_ssid
    stored_password,  \* WiFiManager::stored_password
    sc_delay_ms,      \* time spent in the retry loop's vTaskDelay calls
    wifi_status,      \* main loop: wifi_manager.isConnected()
    mqtt_status,      \* main loop: mqtt_manager.isConnected()
    detected,         \* main loop: output > detection_threshold
    did,              \* reconnects made by the running liveness check
    last_will,        \* last will the MQTT client was created with
    sent,             \* per topic, the last message given to the client
    pub_result,       \* last return value of publishAlert/publishHeartbeat
    device_id,        \* bluetooth_provisioning.cpp:36
    ap_ssid,          \* the SSID the access point was configured with
    mqtt_device_id,   \* MQTTManager::device_id
    sta_got_ip,       \* an IP_EVENT_STA_GOT_IP was processed in this boot
    test_disc,        \* a disconnect was processed during the running test
    cleared,          \* clear_stored_wifi's call: nvs_open result, store before
    bits_at_call,     \* s_wifi_event_group when connect() was last called
    ip_address,       \* WiFiManager::ip_address
    ip_read,          \* main loop: wifi_manager.getIPAddress()
    rpc,              \* connect_handler's position while receiving the body
    content_len,      \* req->content_len of that request
    recv_ret,         \* connect_handler: what httpd_req_recv returned
    nul_index         \* the index content[ret] = 0 was written at

bootVars == <<boots, reset_reason, prev_exhausted>>
mainVars == <<pc, prov_caller, has_wifi, connection_attempts, exhausted>>
httpdVars == <<server, httpd_starts, httpd_stops>>
drvVars == <<ev_loop, wifi_mode, handlers, sta, evq>>
mgrVars == <<bits, wifi_retry_count>>
taskVars == <<hpc, req, req_store, timeout, success, nreq, resp>>
mqttVars == <<client, config_callback, mqtt_connected, mqtt_started>>
cfgVars == <<recording_duration, detection_threshold, cb_calls, nmsg, cfg_msg>>
retryVars == <<stored_ssid, stored_password, sc_delay_ms>>
loopVars == <<wifi_status, mqtt_status, detected, did>>
pubVars == <<last_will, sent, pub_result>>
idVars == <<device_id, ap_ssid, mqtt_device_id>>
evVars == <<sta_got_ip, test_disc>>
histVars == <<cleared, bits_at_call>>
ipVars == <<ip_address, ip_read>>
recvVars == <<rpc, content_len, recv_ret, nul_index>>

vars == <<bootVars, mainVars, httpdVars, drvVars, mgrVars, taskVars, mqttVars,
          cfgVars, retryVars, loopVars, pubVars, idVars, evVars, histVars,
          ipVars, recvVars, store, wifi_configured>>

\* --------------------------------------------------- credential store
\* nvs_get_str(handle, key, NULL, &required_size): the size includes the
\* terminating zero byte.
nvs_required_size(s) == Len(s) + 1

\* has_stored_wifi comparing the size with 0 instead of 1.
has_stored_wifi_any(st, open_ok) ==
    open_ok /\ st.ssid # <<>> /\ nvs_required_size(st.ssid[1]) > 0

\* has_stored_wifi(): the namespace opens, the key "ssid" exists and its
\* required size exceeds 1.
has_stored_wifi(st, open_ok) ==
    open_ok /\ st.ssid # <<>> /\ nvs_required_size(st.ssid[1]) > 1

\* RAM as the C runtime initialises it at reset, the main task's position
\* apart.
RamFresh ==
    /\ prov_caller = "none"
    /\ wifi_configured = FALSE
    /\ server = FALSE
    /\ httpd_starts = 0
    /\ httpd_stops = 0
    /\ ev_loop = FALSE
    /\ wifi_mode = "NULL"
    /\ handlers = {}
    /\ sta = NoSta
    /\ evq = <<>>
    /\ hpc = "idle"
    /\ req = NoBody
    /\ req_store = NoCreds
    /\ timeout = 0
    /\ success = FALSE
    /\ nreq = 0
    /\ resp = NoResp
    /\ has_wifi = FALSE
    /\ connection_attempts = 0
    /\ exhausted = FALSE
    /\ bits = {}
    /\ wifi_retry_count = 0
    /\ client = FALSE
    /\ config_callback = FALSE
    /\ mqtt_connected = FALSE
    /\ mqtt_started = FALSE
    /\ cfg_msg = NoMsg
    /\ recording_duration = InitRecordMs
    /\ detection_threshold = InitThreshold
    /\ cb_calls = 0
    /\ nmsg = 0
    /\ stored_ssid = ""
    /\ stored_password = ""
    /\ sc_delay_ms = 0
    /\ wifi_status = FALSE
    /\ mqtt_status = FALSE
    /\ detected = FALSE
    /\ did = {}
    /\ last_will = <<>>
    /\ sent = NoSent
    /\ pub_result = <<>>
    /\ device_id = ""
    /\ ap_ssid = <<>>
    /\ mqtt_device_id = ""
    /\ sta_got_ip = FALSE
    /\ test_disc = FALSE
    /\ cleared = <<>>
    /\ bits_at_call = {}
    /\ ip_address = ""
    /\ ip_read = ""
    /\ rpc = "none"
    /\ content_len = 0
    /\ recv_ret = 0
    /\ nul_index = <<>>

\* RAM as the C runtime initialises it at reset.
RamInit == pc = "app_main" /\ RamFresh

\* RAM after a reset, as an action.
RamReset ==
    /\ pc' = "app_main"
    /\ prov_caller' = "none"
    /\ wifi_configured' = FALSE
    /\ server' = FALSE
    /\ httpd_starts' = 0
    /\ httpd_stops' = 0
    /\ ev_loop' = FALSE
    /\ wifi_mode' = "NULL"
    /\ handlers' = {}
    /\ sta' = NoSta
    /\ evq' = <<>>
    /\ hpc' = "idle"
    /\ req' = NoBody
    /\ req_store' = NoCreds
    /\ timeout' = 0
    /\ success' = FALSE
    /\ nreq' = 0
    /\ resp' = NoResp
    /\ has_wifi' = FALSE
    /\ connection_attempts' = 0
    /\ exhausted' = FALSE
    /\ bits' = {}
    /\ wifi_retry_count' = 0
    /\ client' = FALSE
    /\ config_callback' = FALSE
    /\ mqtt_connected' = FALSE
    /\ mqtt_started' = FALSE
    /\ cfg_msg' = NoMsg
    /\ recording_duration' = InitRecordMs
    /\ detection_threshold' = InitThreshold
    /\ cb_calls' = 0
    /\ nmsg' = 0
    /\ stored_ssid' = ""
    /\ stored_password' = ""
    /\ sc_delay_ms' = 0
    /\ wifi_status' = FALSE
    /\ mqtt_status' = FALSE
    /\ detected' = FALSE
    /\ did' = {}
    /\ last_will' = <<>>
    /\ sent' = NoSent
    /\ pub_result' = <<>>
    /\ device_id' = ""
    /\ ap_ssid' = <<>>
    /\ mqtt_device_id' = ""
    /\ sta_got_ip' = FALSE
    /\ test_disc' = FALSE
    /\ cleared' = <<>>
    /\ bits_at_call' = {}
    /\ ip_address' = ""
    /\ ip_read' = ""
    /\ rpc' = "none"
    /\ content_len' = 0
    /\ recv_ret' = 0
    /\ nul_index' = <<>>

Init ==
    /\ boots = 1
    /\ reset_reason = "power"
    /\ prev_exhausted = FALSE
    /\ store \in {NoCreds, HomeCreds}
    /\ RamInit

\* A reset: the store survives, everything else starts over.
Reset(reason) ==
    /\ boots < MaxBoots
    /\ boots' = boots + 1
    /\ reset_reason' = reason
    /\ prev_exhausted' = exhausted
    /\ RamReset
    /\ UNCHANGED store

\* The device loses power and is switched on again.
PowerCycle == Reset("power")

\* abort() from a failed ESP_ERROR_CHECK: the panic handler reboots (the
\* default), or halts when the build is configured so.
PanicReboot == pc = "aborted" /\ Reset("panic")

\* app_main: esp_restart() after the fallback provisioning.
Restart == pc = "restart" /\ Reset("restart")

\* ------------------------------------------------------- Wi-Fi driver
\* esp_wifi_start(): a stopped station comes up and the driver posts
\* STA_START; a started one is left as it is.
esp_wifi_start(s) == IF s.st = "stopped" THEN [s EXCEPT !.st = "idle"] ELSE s
start_events(s, q) == IF s.st = "stopped" THEN Append(q, "STA_START") ELSE q

\* esp_wifi_set_config(WIFI_IF_STA, cfg) then esp_wifi_connect().
esp_wifi_connect(s) ==
    IF s.st = "stopped" THEN s ELSE [s EXCEPT !.st = "connecting"]

esp_wifi_disconnect(s) ==
    IF s.st \in {"connecting", "connected"} THEN [s EXCEPT !.st = "idle"] ELSE s

\* The access point accepts the station and DHCP assigns an address.
NetGotIp ==
    /\ pc # "aborted"
    /\ sta.st = "connecting"
    /\ sta.cfg # <<>>
    /\ Joinable(sta.cfg[1])
    /\ Len(evq) < MaxQueue
    /\ sta' = [sta EXCEPT !.st = "connected"]
    /\ evq' = Append(evq, "GOT_IP")
    /\ UNCHANGED <<bootVars, recvVars, idVars, evVars, histVars, ipVars, mainVars, httpdVars, ev_loop, wifi_mode, handlers,
                   mgrVars, taskVars, mqttVars, cfgVars, retryVars, loopVars, pubVars, store, wifi_configured>>

\* The connection attempt fails, or an established link is lost.
NetDisconnected ==
    /\ pc # "aborted"
    /\ sta.st \in {"connecting", "connected"}
    /\ Len(evq) < MaxQueue
    /\ sta' = [sta EXCEPT !.st = "idle"]
    /\ evq' = Append(evq, "STA_DISCONNECTED")
    /\ UNCHANGED <<bootVars, recvVars, idVars, evVars, histVars, ipVars, mainVars, httpdVars, ev_loop, wifi_mode, handlers,
                   mgrVars, taskVars, mqttVars, cfgVars, retryVars, loopVars, pubVars, store, wifi_configured>>

\* wifi_event_handler setting the flag on any station event.
wifi_event_handler_any(e) == TRUE

\* wifi_event_handler (bluetooth_provisioning.cpp): only the address-assigned
\* event changes state.
wifi_event_handler(e) == IF e = "GOT_IP" THEN TRUE ELSE wifi_configured

\* wifi_event_cb retrying on every disconnect, without a limit.
MgrEvent_unbounded(e) ==
    CASE e = "STA_START" ->
           /\ sta' = esp_wifi_connect(sta)
           /\ UNCHANGED <<bits, wifi_retry_count>>
      [] e = "STA_DISCONNECTED" ->
           /\ sta' = esp_wifi_connect(sta)
           /\ wifi_retry_count' = wifi_retry_count + 1
           /\ UNCHANGED bits
      [] e = "GOT_IP" ->
           /\ wifi_retry_count' = 0
           /\ bits' = bits \cup {"CONNECTED"}
           /\ UNCHANGED sta

\* wifi_event_cb and ip_event_cb (WiFiManager.cpp).
MgrEvent(e) ==
    CASE e = "STA_START" ->
           /\ sta' = esp_wifi_connect(sta)
           /\ UNCHANGED <<bits, wifi_retry_count>>
      [] e = "STA_DISCONNECTED" ->
           IF wifi_retry_count < WIFI_RETRY_ATTEMPT
           THEN /\ sta' = esp_wifi_connect(sta)
                /\ wifi_retry_count' = wifi_retry_count + 1
                /\ UNCHANGED bits
           ELSE /\ bits' = bits \cup {"FAIL"}
                /\ UNCHANGED <<sta, wifi_retry_count>>
      [] e = "GOT_IP" ->
           /\ wifi_retry_count' = 0
           /\ bits' = bits \cup {"CONNECTED"}
           /\ UNCHANGED sta

\* The event loop task runs the handlers registered for the next event.
DeliverEvent ==
    /\ pc # "aborted"
    /\ evq # <<>>
    /\ evq' = Tail(evq)
    /\ wifi_configured' =
         IF "prov" \in handlers THEN wifi_event_handler(Head(evq)) ELSE wifi_configured
    /\ IF "mgr" \in handlers
       THEN MgrEvent(Head(evq))
       ELSE UNCHANGED <<sta, bits, wifi_retry_count>>
    /\ sta_got_ip' = (sta_got_ip \/ Head(evq) = "GOT_IP")
    /\ test_disc' = (test_disc \/ (hpc = "testing" /\ Head(evq) = "STA_DISCONNECTED"))
    /\ UNCHANGED <<bootVars, recvVars, idVars, histVars, ipVars, mainVars, httpdVars, ev_loop, wifi_mode, handlers,
                   taskVars, mqttVars, cfgVars, retryVars, loopVars, pubVars, store>>

\* ---------------------------------------------------- captive portal
\* stop_provisioning_server with the guard on the handle left out.
stop_provisioning_server_unguarded ==
    /\ hpc = "idle"
    /\ server' = FALSE
    /\ httpd_stops' = httpd_stops + 1
    /\ UNCHANGED httpd_starts

\* stop_provisioning_server(): httpd_stop returns once the server task has
\* finished the request it is handling.
stop_provisioning_server ==
    IF server
    THEN /\ hpc = "idle"
         /\ server' = FALSE
         /\ httpd_stops' = httpd_stops + 1
         /\ UNCHANGED httpd_starts
    ELSE UNCHANGED <<server, httpd_stops, httpd_starts>>

\* start_wifi_ap_provisioning up to its wait loop.  The default event loop
\* is created under ESP_ERROR_CHECK: creating it twice aborts.  httpd_start
\* may fail, which is only logged.
StartProvisioning ==
    /\ pc = "prov_start"
    /\ device_id' = IF device_id = "" THEN generate_device_id(FactoryMac) ELSE device_id
    /\ IF ev_loop
       THEN /\ pc' = "aborted"
            /\ UNCHANGED <<httpdVars, drvVars, ap_ssid>>
       ELSE /\ ev_loop' = TRUE
            /\ handlers' = handlers \cup {"prov"}
            /\ wifi_mode' = "APSTA"
            /\ sta' = esp_wifi_start(sta)
            /\ evq' = start_events(sta, evq)
            /\ \E httpd_ok \in BOOLEAN :
                 /\ server' = httpd_ok
                 /\ httpd_starts' = IF httpd_ok THEN httpd_starts + 1 ELSE httpd_starts
            /\ ap_ssid' = <<ap_ssid_of(device_id')>>
            /\ pc' = "prov_wait"
            /\ UNCHANGED httpd_stops
    /\ UNCHANGED <<bootVars, recvVars, mqtt_device_id, evVars, histVars, ipVars, prov_caller, has_wifi, connection_attempts, exhausted,
                   mgrVars, taskVars, mqttVars, cfgVars, retryVars, loopVars, pubVars, store, wifi_configured>>

\* start_wifi_ap_provisioning switching the mode with the server left running.
ProvStop_server_left ==
    /\ pc = "prov_stop"
    /\ pc' = "prov_mode"
    /\ UNCHANGED <<bootVars, recvVars, idVars, evVars, histVars, ipVars, prov_caller, has_wifi, connection_attempts, exhausted,
                   httpdVars, drvVars, mgrVars, taskVars, mqttVars, cfgVars,
                   retryVars, loopVars, pubVars, store, wifi_configured>>

\* while (!wifi_configured) { blink; delay }: the loop is left.
ProvWaitExit ==
    /\ pc = "prov_wait"
    /\ wifi_configured
    /\ pc' = "prov_stop"
    /\ UNCHANGED <<bootVars, recvVars, idVars, evVars, histVars, ipVars, prov_caller, has_wifi, connection_attempts, exhausted,
                   httpdVars, drvVars, mgrVars, taskVars, mqttVars, cfgVars, retryVars, loopVars, pubVars, store,
                   wifi_configured>>

\* start_wifi_ap_provisioning: stop_provisioning_server().
ProvStop ==
    /\ pc = "prov_stop"
    /\ stop_provisioning_server
    /\ pc' = "prov_mode"
    /\ UNCHANGED <<bootVars, recvVars, idVars, evVars, histVars, ipVars, prov_caller, has_wifi, connection_attempts, exhausted,
                   drvVars, mgrVars, taskVars, mqttVars, cfgVars, retryVars, loopVars, pubVars, store,
                   wifi_configured>>

\* start_wifi_ap_provisioning: esp_wifi_set_mode(WIFI_MODE_STA), return.
ProvSetMode ==
    /\ pc = "prov_mode"
    /\ wifi_mode' = "STA"
    /\ pc' = IF prov_caller = "setup" THEN "setup_stop" ELSE "restart"
    /\ UNCHANGED <<bootVars, recvVars, idVars, evVars, histVars, ipVars, prov_caller, has_wifi, connection_attempts, exhausted,
                   httpdVars, ev_loop, handlers, sta, evq, mgrVars, taskVars,
                   mqttVars, cfgVars, retryVars, loopVars, pubVars, store, wifi_configured>>

\* scan_handler answering 500 when no network was found.
scan_handler_empty_error(err_ok, records) ==
    IF ~err_ok \/ records = <<>>
    THEN [NoResp EXCEPT !.kind = "scan", !.code = 500]
    ELSE [NoResp EXCEPT !.kind = "scan", !.code = 200, !.networks = <<records>>]

\* scan_handler: the blocking scan, then the JSON array of the records.
scan_handler(err_ok, records) ==
    IF ~err_ok
    THEN [NoResp EXCEPT !.kind = "scan", !.code = 500]
    ELSE [NoResp EXCEPT !.kind = "scan", !.code = 200, !.networks = <<records>>]

HandleScan ==
    /\ server
    /\ hpc = "idle"
    /\ \E err_ok \in BOOLEAN, records \in ScanResults :
         resp' = [scan_handler(err_ok, records) EXCEPT
                    !.scan = <<[err_ok |-> err_ok, records |-> records]>>,
                    !.store_before = store]
    /\ UNCHANGED <<bootVars, recvVars, idVars, evVars, histVars, ipVars, mainVars, httpdVars, drvVars, mgrVars, hpc, req,
                   req_store, timeout, success, nreq, mqttVars, cfgVars, retryVars, loopVars, pubVars, store,
                   wifi_configured>>

\* status_handler: both flags are wifi_configured.
HandleStatus ==
    /\ server
    /\ hpc = "idle"
    /\ resp' = [NoResp EXCEPT !.kind = "status", !.code = 200,
                  !.status = <<[wifi_configured |-> wifi_configured,
                                wifi_connected |-> wifi_configured]>>,
                  !.store_before = store, !.got_ip = <<sta_got_ip>>]
    /\ UNCHANGED <<bootVars, recvVars, idVars, evVars, histVars, ipVars, mainVars, httpdVars, drvVars, mgrVars, hpc, req,
                   req_store, timeout, success, nreq, mqttVars, cfgVars, retryVars, loopVars, pubVars, store,
                   wifi_configured>>

\* connect_handler's checks that answer 400, with the string check left out.
connect_rejects_nostring(body) == ~body.recv \/ ~body.json

\* connect_handler, lines 320-346: the body was not received, is not JSON,
\* or has no string-valued "ssid".
connect_rejects(body) == ~body.recv \/ ~body.json \/ body.ssid = <<>>

\* const char *ssid = ssid_json->valuestring (NULL without a string member),
\* password = cJSON_IsString(password_json) ? valuestring : "".
ssid_of(body) == IF body.ssid = <<>> THEN "" ELSE body.ssid[1]
password_of(body) == IF body.password = <<>> THEN "" ELSE body.password[1]
creds_of(body) == [ssid |-> ssid_of(body), password |-> password_of(body)]

\* connect_handler up to the wait of test_wifi_connection: receive, parse,
\* check, then test_wifi_connection's esp_wifi_set_config and
\* esp_wifi_connect.
ConnectBegin ==
    /\ server
    /\ hpc = "idle"
    /\ nreq < MaxReqs
    /\ \E body \in ConnectBodies :
         /\ req' = body
         /\ req_store' = store
         /\ nreq' = nreq + 1
         /\ IF connect_rejects(body)
            THEN /\ resp' = [NoResp EXCEPT !.kind = "connect", !.code = 400,
                               !.body = body, !.store_before = store]
                 /\ UNCHANGED <<hpc, sta, timeout>>
            ELSE /\ sta' = esp_wifi_connect([sta EXCEPT !.cfg = <<creds_of(body)>>])
                 /\ timeout' = TestPolls * PollMs
                 /\ hpc' = "testing"
                 /\ UNCHANGED resp
    /\ test_disc' = FALSE
    /\ UNCHANGED <<bootVars, recvVars, idVars, sta_got_ip, histVars, ipVars, mainVars,
                   httpdVars, ev_loop, wifi_mode, handlers, evq, mgrVars, success,
                   mqttVars, cfgVars, retryVars, loopVars, pubVars, store, wifi_configured>>

\* test_wifi_connection: one turn of while (timeout > 0 && !wifi_configured).
ConnectPoll ==
    /\ hpc = "testing"
    /\ timeout > 0 /\ ~wifi_configured
    /\ timeout' = timeout - PollMs
    /\ UNCHANGED <<bootVars, recvVars, idVars, evVars, histVars, ipVars, mainVars, httpdVars, drvVars, mgrVars, hpc, req,
                   req_store, success, nreq, resp, mqttVars, cfgVars, retryVars, loopVars, pubVars, store,
                   wifi_configured>>

\* test_wifi_connection: the loop is left and the flag decides the result;
\* on failure the station is disconnected.
ConnectTestEnd ==
    /\ hpc = "testing"
    /\ ~(timeout > 0 /\ ~wifi_configured)
    /\ success' = wifi_configured
    /\ sta' = IF wifi_configured THEN sta ELSE esp_wifi_disconnect(sta)
    /\ hpc' = "tested"
    /\ UNCHANGED <<bootVars, recvVars, idVars, evVars, histVars, ipVars, mainVars, httpdVars, ev_loop, wifi_mode, handlers, evq,
                   mgrVars, req, req_store, timeout, nreq, resp, mqttVars, cfgVars, retryVars, loopVars, pubVars,
                   store, wifi_configured>>

\* connect_handler, lines 360-376: on success the credentials are written
\* when the namespace opens; a failure to open is only logged.
nvs_save(st, body, open_ok) ==
    IF open_ok
    THEN [ssid |-> <<ssid_of(body)>>, password |-> <<password_of(body)>>]
    ELSE st

\* connect_handler, lines 360-398: store, then respond.
ConnectFinish ==
    /\ hpc = "tested"
    /\ \E open_ok \in BOOLEAN :
         store' = IF success THEN nvs_save(store, req, open_ok) ELSE store
    /\ resp' = [NoResp EXCEPT !.kind = "connect", !.code = 200,
                  !.success = <<success>>, !.body = req, !.store_before = req_store]
    /\ hpc' = "idle"
    /\ test_disc' = FALSE
    /\ UNCHANGED <<bootVars, recvVars, idVars, sta_got_ip, histVars, ipVars, mainVars, httpdVars, drvVars, mgrVars, req, req_store,
                   timeout, success, nreq, mqttVars, cfgVars, retryVars, loopVars, pubVars, wifi_configured>>

\* --------------------------------------------------------- supervisor
\* setup_connectivity taking the stored-credential branch whatever
\* has_stored_wifi() returned.
SetupCheck_always_stored ==
    /\ pc = "app_main"
    /\ \E open_ok \in BOOLEAN : has_wifi' = has_stored_wifi(store, open_ok)
    /\ pc' = "mgr_init"
    /\ prov_caller' = "none"
    /\ device_id' = generate_device_id(FactoryMac)
    /\ UNCHANGED <<bootVars, recvVars, ap_ssid, mqtt_device_id, evVars, histVars, ipVars, connection_attempts, exhausted, httpdVars, drvVars,
                   mgrVars, taskVars, mqttVars, cfgVars, retryVars, loopVars,
                   pubVars, store, wifi_configured>>

\* app_main, line 148: device_id = generate_device_id(); then
\* setup_connectivity, line 60: the branch on has_stored_wifi().  The
\* namespace may fail to open.
SetupCheck ==
    /\ pc = "app_main"
    /\ \E open_ok \in BOOLEAN :
         /\ has_wifi' = has_stored_wifi(store, open_ok)
         /\ pc' = IF has_stored_wifi(store, open_ok) THEN "mgr_init" ELSE "prov_start"
         /\ prov_caller' = IF has_stored_wifi(store, open_ok) THEN "none" ELSE "setup"
    /\ device_id' = generate_device_id(FactoryMac)
    /\ UNCHANGED <<bootVars, recvVars, ap_ssid, mqtt_device_id, evVars, histVars, ipVars, connection_attempts, exhausted, httpdVars, drvVars,
                   mgrVars, taskVars, mqttVars, cfgVars, retryVars, loopVars, pubVars, store, wifi_configured>>

\* setup_connectivity, lines 70-72: stop_provisioning_server() once more.
SetupStop ==
    /\ pc = "setup_stop"
    /\ stop_provisioning_server
    /\ pc' = "setup_mode"
    /\ UNCHANGED <<bootVars, recvVars, idVars, evVars, histVars, ipVars, prov_caller, has_wifi, connection_attempts, exhausted,
                   drvVars, mgrVars, taskVars, mqttVars, cfgVars, retryVars, loopVars, pubVars, store,
                   wifi_configured>>

SetupSetMode ==
    /\ pc = "setup_mode"
    /\ wifi_mode' = "STA"
    /\ pc' = "mqtt_init"
    /\ UNCHANGED <<bootVars, recvVars, idVars, evVars, histVars, ipVars, prov_caller, has_wifi, connection_attempts, exhausted,
                   httpdVars, ev_loop, handlers, sta, evq, mgrVars, taskVars,
                   mqttVars, cfgVars, retryVars, loopVars, pubVars, store, wifi_configured>>

\* WiFiManager::initialize: it fails before the event loop is created
\* ("netif"), after it ("late"), or succeeds and registers its callbacks.
MgrInitialize ==
    /\ pc = "mgr_init"
    /\ \E r \in {"ok", "netif", "late"} :
         /\ ev_loop' = (ev_loop \/ r # "netif")
         /\ handlers' = IF r = "ok" THEN handlers \cup {"mgr"} ELSE handlers
         /\ pc' = IF r = "ok" THEN "sc_loop" ELSE "setup_failed"
    /\ bits' = {}
    /\ UNCHANGED <<bootVars, recvVars, idVars, evVars, histVars, ipVars, prov_caller, has_wifi, connection_attempts, exhausted,
                   httpdVars, wifi_mode, sta, evq, wifi_retry_count, taskVars,
                   mqttVars, cfgVars, retryVars, loopVars, pubVars, store, wifi_configured>>

\* WiFiManager::connect up to its wait: station mode, the configuration,
\* esp_wifi_start().
mgr_connect(s, creds) == esp_wifi_start([s EXCEPT !.cfg = <<creds>>])

\* The loop of setup_connectivity, lines 90-94: the next attempt.
\* connectWithStoredCredentials loads the stored record and calls connect;
\* it gives up when the record cannot be read.
ScAttempt ==
    /\ pc = "sc_loop"
    /\ connection_attempts < max_attempts
    /\ connection_attempts' = connection_attempts + 1
    /\ \E open_ok \in BOOLEAN :
         IF open_ok /\ store.ssid # <<>>
         THEN /\ sta' = mgr_connect(sta, [ssid |-> store.ssid[1],
                          password |-> IF store.password = <<>> THEN ""
                                       ELSE store.password[1]])
              /\ evq' = start_events(sta, evq)
              /\ wifi_mode' = "STA"
              /\ stored_ssid' = store.ssid[1]
              /\ stored_password' = IF store.password = <<>> THEN ""
                                    ELSE store.password[1]
              /\ bits_at_call' = bits
              /\ pc' = "sc_wait"
         ELSE /\ pc' = "sc_failed"
              /\ UNCHANGED <<sta, evq, wifi_mode, stored_ssid, stored_password,
                             bits_at_call>>
    /\ UNCHANGED <<bootVars, recvVars, idVars, evVars, cleared, ipVars, prov_caller, has_wifi, exhausted, httpdVars, ev_loop,
                   handlers, mgrVars, taskVars, mqttVars, cfgVars, sc_delay_ms,
                   loopVars, pubVars, store, wifi_configured>>

\* WiFiManager::connect, lines 179-191: xEventGroupWaitBits returns once a
\* bit is set (no bit is cleared) and CONNECTED decides.
ScWaitDone ==
    /\ pc = "sc_wait"
    /\ bits # {}
    /\ pc' = IF "CONNECTED" \in bits THEN "mqtt_init" ELSE "sc_failed"
    /\ UNCHANGED <<bootVars, recvVars, idVars, evVars, histVars, ipVars, prov_caller, has_wifi, connection_attempts, exhausted,
                   httpdVars, drvVars, mgrVars, taskVars, mqttVars, cfgVars, retryVars, loopVars, pubVars, store,
                   wifi_configured>>

\* The retry loop waiting after the last attempt as well.
ScFailed_always_wait ==
    /\ pc = "sc_failed"
    /\ sc_delay_ms' = sc_delay_ms + RetryDelayMs
    /\ IF connection_attempts < max_attempts
       THEN pc' = "sc_loop" /\ UNCHANGED exhausted
       ELSE pc' = "setup_failed" /\ exhausted' = TRUE
    /\ UNCHANGED <<bootVars, recvVars, idVars, evVars, histVars, ipVars, prov_caller, has_wifi, connection_attempts,
                   httpdVars, drvVars, mgrVars, taskVars, mqttVars, cfgVars,
                   stored_ssid, stored_password, loopVars, pubVars, store,
                   wifi_configured>>

\* setup_connectivity, lines 98-111: a failed attempt is followed by a 3 s
\* wait and the next attempt, and the last one by return false.
ScFailed ==
    /\ pc = "sc_failed"
    /\ IF connection_attempts < max_attempts
       THEN /\ sc_delay_ms' = sc_delay_ms + RetryDelayMs
            /\ pc' = "sc_loop"
            /\ UNCHANGED exhausted
       ELSE /\ pc' = "setup_failed"
            /\ exhausted' = TRUE
            /\ UNCHANGED sc_delay_ms
    /\ UNCHANGED <<bootVars, recvVars, idVars, evVars, histVars, ipVars, prov_caller, has_wifi, connection_attempts,
                   httpdVars, drvVars, mgrVars, taskVars, mqttVars, cfgVars,
                   stored_ssid, stored_password, loopVars, pubVars, store,
                   wifi_configured>>

\* A client configuration without a last will.
mqtt_cfg_no_will == <<>>

\* MQTTManager::initialize, lines 44-49: mqtt_cfg.session.last_will.
mqtt_cfg_last_will ==
    <<[topic |-> topic_status, msg |-> "offline", qos |-> 1, retain |-> TRUE]>>

\* MQTTManager::initialize and setConfigCallback (setup_connectivity,
\* lines 117-124): the identifier is copied and the topics are built from
\* it, then esp_mqtt_client_init may return NULL.
MqttInitialize ==
    /\ pc = "mqtt_init"
    /\ \E ok \in BOOLEAN :
         /\ client' = ok
         /\ last_will' = IF ok THEN mqtt_cfg_last_will ELSE last_will
         /\ config_callback' = ok
         /\ pc' = IF ok THEN "mqtt_connect" ELSE "setup_failed"
    /\ mqtt_device_id' = strncpy(DEVICE_ID, 31)
    /\ UNCHANGED <<bootVars, recvVars, device_id, ap_ssid, evVars, histVars, ipVars, prov_caller, has_wifi, connection_attempts, exhausted,
                   httpdVars, drvVars, mgrVars, taskVars, mqtt_connected,
                   mqtt_started, cfgVars, retryVars, loopVars, sent, pub_result,
                   store, wifi_configured>>

\* MQTTManager::connect: false without a client, else the result of
\* esp_mqtt_client_start.
mqtt_connect(cl, start_ok) == cl /\ start_ok

\* MQTTManager::connect (setup_connectivity, lines 126-135).
MqttConnect ==
    /\ pc = "mqtt_connect"
    /\ \E start_ok \in BOOLEAN :
         /\ mqtt_started' = mqtt_connect(client, start_ok)
         /\ pc' = IF mqtt_connect(client, start_ok) THEN "operational"
                  ELSE "setup_failed"
    /\ UNCHANGED <<bootVars, recvVars, idVars, evVars, histVars, ipVars, prov_caller, has_wifi, connection_attempts, exhausted,
                   httpdVars, drvVars, mgrVars, taskVars, client, config_callback,
                   mqtt_connected, cfgVars, retryVars, loopVars, pubVars, store, wifi_configured>>

\* clear_stored_wifi() erasing nothing.
clear_stored_wifi_kept(st, open_ok) == st

\* clear_stored_wifi(): the erase is skipped when the namespace does not open.
clear_stored_wifi(st, open_ok) == IF open_ok THEN NoCreds ELSE st

\* app_main, lines 152-159: setup_connectivity returned false.
SetupFailed ==
    /\ pc = "setup_failed"
    /\ \E open_ok \in BOOLEAN :
         /\ store' = clear_stored_wifi(store, open_ok)
         /\ cleared' = <<[open_ok |-> open_ok, before |-> store]>>
    /\ pc' = "prov_start"
    /\ prov_caller' = "fallback"
    /\ UNCHANGED <<bootVars, recvVars, idVars, evVars, bits_at_call, ipVars, has_wifi, connection_attempts, exhausted, httpdVars,
                   drvVars, mgrVars, taskVars, mqttVars, cfgVars, retryVars, loopVars, pubVars, wifi_configured>>

Next ==
    \/ PowerCycle
    \/ PanicReboot
    \/ Restart
    \/ NetGotIp
    \/ NetDisconnected
    \/ DeliverEvent
    \/ SetupCheck
    \/ StartProvisioning
    \/ ProvWaitExit
    \/ ProvStop
    \/ ProvSetMode
    \/ SetupStop
    \/ SetupSetMode
    \/ HandleScan
    \/ HandleStatus
    \/ ConnectBegin
    \/ ConnectPoll
    \/ ConnectTestEnd
    \/ ConnectFinish
    \/ MgrInitialize
    \/ ScAttempt
    \/ ScWaitDone
    \/ ScFailed
    \/ MqttInitialize
    \/ MqttConnect
    \/ SetupFailed

Spec == Init /\ [][Next]_vars

\* char content[512] in connect_handler.
ContentSize == 512

MIN(a, b) == IF a < b THEN a ELSE b

\* connect_handler, line 318: size_t recv_size = MIN(req->content_len,
\* sizeof(content)).
recv_size(len) == MIN(len, ContentSize)

\* What httpd_req_recv(req, content, n) can return: a negative error, 0 when
\* the connection was closed or nothing was asked for, or the number of bytes
\* read, between 1 and n (a short read, or the whole of what was asked for).
httpd_req_recv(n) == {-1, 0} \cup {k \in {1, n - 1, n} : 1 <= k /\ k <= n}

\* A POST /connect arrives at the portal with some content length.
ConnectRequest ==
    /\ pc = "prov_wait" /\ server /\ hpc = "idle"
    /\ rpc = "none"
    /\ \E len \in 0..MaxContentLen : content_len' = len
    /\ rpc' = "recv"
    /\ UNCHANGED <<recv_ret, nul_index>>
    /\ UNCHANGED <<bootVars, mainVars, httpdVars, drvVars, mgrVars, taskVars, mqttVars,
                   cfgVars, retryVars, loopVars, pubVars, idVars, evVars, histVars,
                   ipVars, store, wifi_configured>>

\* connect_handler, lines 318-325: the body is received into content; a
\* result <= 0 is answered with 400.
ConnectReceive ==
    /\ rpc = "recv"
    /\ \E r \in httpd_req_recv(recv_size(content_len)) :
         /\ recv_ret' = r
         /\ rpc' = IF r <= 0 THEN "rejected" ELSE "terminate"
    /\ UNCHANGED <<content_len, nul_index>>
    /\ UNCHANGED <<bootVars, mainVars, httpdVars, drvVars, mgrVars, taskVars, mqttVars,
                   cfgVars, retryVars, loopVars, pubVars, idVars, evVars, histVars,
                   ipVars, store, wifi_configured>>

\* connect_handler, line 326: content[ret] = 0.
ConnectTerminate ==
    /\ rpc = "terminate"
    /\ nul_index' = <<recv_ret>>
    /\ rpc' = "parse"
    /\ UNCHANGED <<content_len, recv_ret>>
    /\ UNCHANGED <<bootVars, mainVars, httpdVars, drvVars, mgrVars, taskVars, mqttVars,
                   cfgVars, retryVars, loopVars, pubVars, idVars, evVars, histVars,
                   ipVars, store, wifi_configured>>

\* The provisioning branch of setup_connectivity alone (lines 59-73): a boot
\* that finds no credentials, the portal and its handlers, up to the return
\* of start_wifi_ap_provisioning.
InitProv == Init /\ store = NoCreds

NextProv ==
    \/ SetupCheck
    \/ StartProvisioning
    \/ ProvWaitExit
    \/ ProvStop
    \/ ProvSetMode
    \/ HandleScan
    \/ HandleStatus
    \/ ConnectBegin
    \/ ConnectPoll
    \/ ConnectTestEnd
    \/ ConnectFinish
    \/ NetGotIp
    \/ NetDisconnected
    \/ DeliverEvent

SpecProv == InitProv /\ [][NextProv]_vars

\* The portal receiving the body of one POST /connect.
NextRecv ==
    \/ SetupCheck
    \/ StartProvisioning
    \/ DeliverEvent
    \/ ConnectRequest
    \/ ConnectReceive
    \/ ConnectTerminate

SpecRecv == InitProv /\ [][NextRecv]_vars

\* The main task, the HTTP server task inside a request and the event loop
\* task keep running; clients need not send a request and the network need
\* not answer.
SpecProvFair ==
    /\ SpecProv
    /\ WF_vars(SetupCheck)
    /\ WF_vars(StartProvisioning)
    /\ WF_vars(ProvWaitExit)
    /\ WF_vars(ProvStop)
    /\ WF_vars(ProvSetMode)
    /\ WF_vars(ConnectPoll)
    /\ WF_vars(ConnectTestEnd)
    /\ WF_vars(ConnectFinish)
    /\ WF_vars(DeliverEvent)

\* The stored-credential branch of setup_connectivity alone (lines 76-112):
\* a boot that finds credentials, up to the point where the link is
\* established or the attempts are used up.
InitConnect == Init /\ store = HomeCreds

NextConnect ==
    \/ SetupCheck
    \/ MgrInitialize
    \/ ScAttempt
    \/ ScWaitDone
    \/ ScFailed
    \/ NetGotIp
    \/ NetDisconnected
    \/ DeliverEvent

SpecConnect == InitConnect /\ [][NextConnect]_vars

\* The same with the scheduler's guarantees: the main task and the event
\* loop task run whenever they can; nothing is assumed of the network.
SpecConnectFair ==
    /\ SpecConnect
    /\ WF_vars(SetupCheck)
    /\ WF_vars(MgrInitialize)
    /\ WF_vars(ScAttempt)
    /\ WF_vars(ScWaitDone)
    /\ WF_vars(ScFailed)
    /\ WF_vars(DeliverEvent)

\* -------------------------------------------------------- MQTT manager
\* strncmp(event->topic, topic_config, event->topic_len) == 0: the first n
\* characters of a agree with b, whose end is a zero byte.
strncmp_eq(a, b, n) ==
    /\ n <= Len(b)
    /\ \A i \in 1..n : a[i] = b[i]

\* handleConfigMessage merging the message into the running configuration:
\* a field the message does not carry keeps its value.
config_of_merged(payload) ==
    [record_ms |-> IF payload.record_ms # <<>> THEN payload.record_ms[1]
                   ELSE recording_duration,
     min_conf |-> IF payload.min_conf # <<>> THEN payload.min_conf[1]
                  ELSE detection_threshold]

\* handleConfigMessage, lines 186-201: each field is the message's number
\* or the hard-coded default.
config_of(payload) ==
    [record_ms |-> IF payload.record_ms # <<>> THEN payload.record_ms[1]
                   ELSE DefaultRecordMs,
     min_conf |-> IF payload.min_conf # <<>> THEN payload.min_conf[1]
                  ELSE DefaultMinConf]

\* handleConfigMessage with the JSON check left out.
config_delivered_unparsed(payload) == config_callback

\* handleConfigMessage, lines 170-184: the callback runs when it is set and
\* the payload parses.
config_delivered(payload) == config_callback /\ payload.json

\* The messages the device publishes: payload, QoS and retain flag as
\* passed to esp_mqtt_client_publish.  An alert carries the "id" app_main
\* copied from DEVICE_ID into alert.device_id (15 characters at most).
AlertMsg == [payload |-> [id |-> strncpy(DEVICE_ID, 15)], qos |-> 1,
             retain |-> FALSE]
HeartbeatMsg == [payload |-> "1", qos |-> 0, retain |-> FALSE]
StatusMsg(status) == [payload |-> status, qos |-> 1, retain |-> TRUE]

\* esp_mqtt_client_publish(client, topic, ...): the message is given to the
\* client.
publish(snt, key, msg) == [snt EXCEPT ![key] = <<msg>>]

\* publishStatus without the retain flag.
publishStatus_unretained(cl, snt, status) ==
    IF cl THEN publish(snt, "status", [StatusMsg(status) EXCEPT !.retain = FALSE])
    ELSE snt

\* MQTTManager::publishStatus: nothing without a client.
publishStatus(cl, snt, status) ==
    IF cl THEN publish(snt, "status", StatusMsg(status)) ELSE snt

\* The guard of publishAlert and publishHeartbeat with the connected flag
\* left out.
publish_allowed_unconnected(conn, cl) == cl

\* publishAlert and publishHeartbeat: if (!connected || !client) return false.
publish_allowed(conn, cl) == conn /\ cl

\* MQTTManager::publishAlert: the return value is msg_id != -1.
publishAlert ==
    IF publish_allowed(mqtt_connected, client)
    THEN /\ sent' = publish(sent, "alerts", AlertMsg)
         /\ \E msg_ok \in BOOLEAN : pub_result' = <<msg_ok>>
    ELSE /\ pub_result' = <<FALSE>>
         /\ UNCHANGED sent

\* MQTTManager::publishHeartbeat.
publishHeartbeat ==
    IF publish_allowed(mqtt_connected, client)
    THEN /\ sent' = publish(sent, "hb", HeartbeatMsg)
         /\ \E msg_ok \in BOOLEAN : pub_result' = <<msg_ok>>
    ELSE /\ pub_result' = <<FALSE>>
         /\ UNCHANGED sent

\* mqtt_event_handler, MQTT_EVENT_CONNECTED: the flag, the subscription and
\* publishStatus("online").
MqttEvConnected ==
    /\ mqtt_started
    /\ nmsg < MaxMsgs
    /\ nmsg' = nmsg + 1
    /\ mqtt_connected' = TRUE
    /\ sent' = publishStatus(client, sent, "online")
    /\ UNCHANGED <<bootVars, recvVars, idVars, evVars, histVars, ipVars, mainVars, httpdVars, drvVars, mgrVars, taskVars,
                   client, config_callback, mqtt_started, recording_duration,
                   detection_threshold, cb_calls, cfg_msg, retryVars, loopVars,
                   last_will, pub_result, store, wifi_configured>>

\* mqtt_event_handler, MQTT_EVENT_DISCONNECTED.
MqttEvDisconnected ==
    /\ mqtt_started
    /\ nmsg < MaxMsgs
    /\ nmsg' = nmsg + 1
    /\ mqtt_connected' = FALSE
    /\ UNCHANGED <<bootVars, recvVars, idVars, evVars, histVars, ipVars, mainVars, httpdVars, drvVars, mgrVars, taskVars,
                   client, config_callback, mqtt_started, recording_duration,
                   detection_threshold, cb_calls, cfg_msg, retryVars, loopVars, pubVars,
                   store, wifi_configured>>

\* mqtt_event_handler, MQTT_EVENT_DATA: handleConfigMessage on a topic match,
\* which calls mqtt_config_callback (main.cpp:46-50).
MqttEvData ==
    /\ mqtt_started
    /\ nmsg < MaxMsgs
    /\ nmsg' = nmsg + 1
    /\ \E topic \in Topics, payload \in ConfigPayloads :
         /\ cfg_msg' = [topic |-> topic, payload |-> payload]
         /\ IF strncmp_eq(topic, topic_config, Len(topic)) /\ config_delivered(payload)
            THEN /\ recording_duration' = config_of(payload).record_ms
                 /\ detection_threshold' = config_of(payload).min_conf
                 /\ cb_calls' = cb_calls + 1
            ELSE UNCHANGED <<recording_duration, detection_threshold, cb_calls>>
    /\ UNCHANGED <<bootVars, recvVars, idVars, evVars, histVars, ipVars, mainVars, httpdVars, drvVars, mgrVars, taskVars,
                   mqttVars, retryVars, loopVars, pubVars, store, wifi_configured>>

\* A caller of the manager calls publishAlert (in any state of the session).
CallPublishAlert ==
    /\ publishAlert
    /\ UNCHANGED <<bootVars, recvVars, idVars, evVars, histVars, ipVars, mainVars, httpdVars, drvVars, mgrVars, taskVars,
                   mqttVars, cfgVars, retryVars, loopVars, last_will, store,
                   wifi_configured>>

\* A caller of the manager calls publishHeartbeat.
CallPublishHeartbeat ==
    /\ publishHeartbeat
    /\ UNCHANGED <<bootVars, recvVars, idVars, evVars, histVars, ipVars, mainVars, httpdVars, drvVars, mgrVars, taskVars,
                   mqttVars, cfgVars, retryVars, loopVars, last_will, store,
                   wifi_configured>>

\* MQTTManager::disconnect: publishStatus("offline"), then the client is
\* stopped and destroyed.
CallDisconnect ==
    /\ sent' = publishStatus(client, sent, "offline")
    /\ client' = FALSE
    /\ mqtt_started' = FALSE
    /\ mqtt_connected' = FALSE
    /\ last_will' = IF client THEN <<>> ELSE last_will
    /\ UNCHANGED <<bootVars, recvVars, idVars, evVars, histVars, ipVars, mainVars, httpdVars, drvVars, mgrVars, taskVars,
                   config_callback, cfgVars, retryVars, loopVars, pub_result,
                   store, wifi_configured>>

\* The messaging session alone, from the point where setup_connectivity
\* sets it up on an established link.
InitMqtt ==
    /\ boots = 1
    /\ reset_reason = "power"
    /\ prev_exhausted = FALSE
    /\ store = HomeCreds
    /\ pc = "mqtt_init"
    /\ prov_caller = "none"
    /\ wifi_configured = FALSE
    /\ server = FALSE
    /\ httpd_starts = 0
    /\ httpd_stops = 0
    /\ ev_loop = TRUE
    /\ wifi_mode = "STA"
    /\ handlers = {"mgr"}
    /\ sta = [st |-> "connected", cfg |-> <<[ssid |-> "home", password |-> "pw"]>>]
    /\ evq = <<>>
    /\ hpc = "idle"
    /\ req = NoBody
    /\ req_store = NoCreds
    /\ timeout = 0
    /\ success = FALSE
    /\ nreq = 0
    /\ resp = NoResp
    /\ has_wifi = TRUE
    /\ connection_attempts = 1
    /\ exhausted = FALSE
    /\ bits = {"CONNECTED"}
    /\ wifi_retry_count = 0
    /\ client = FALSE
    /\ config_callback = FALSE
    /\ mqtt_connected = FALSE
    /\ mqtt_started = FALSE
    /\ cfg_msg = NoMsg
    /\ recording_duration = InitRecordMs
    /\ detection_threshold = InitThreshold
    /\ cb_calls = 0
    /\ nmsg = 0
    /\ stored_ssid = "home"
    /\ stored_password = "pw"
    /\ sc_delay_ms = 0
    /\ wifi_status = FALSE
    /\ mqtt_status = FALSE
    /\ detected = FALSE
    /\ did = {}
    /\ last_will = <<>>
    /\ sent = NoSent
    /\ pub_result = <<>>
    /\ device_id = generate_device_id(FactoryMac)
    /\ ap_ssid = <<>>
    /\ mqtt_device_id = ""
    /\ sta_got_ip = TRUE
    /\ test_disc = FALSE
    /\ cleared = <<>>
    /\ bits_at_call = {}
    /\ ip_address = ""
    /\ ip_read = ""
    /\ rpc = "none"
    /\ content_len = 0
    /\ recv_ret = 0
    /\ nul_index = <<>>

NextMqtt ==
    \/ MqttInitialize
    \/ MqttConnect
    \/ MqttEvConnected
    \/ MqttEvDisconnected
    \/ MqttEvData
    \/ CallPublishAlert
    \/ CallPublishHeartbeat
    \/ CallDisconnect

SpecMqtt == InitMqtt /\ [][NextMqtt]_vars

\* --------------------------------------------------- stored credentials
\* Bodies of POST /connect at the limits of the record, and the records a
\* successful request saves for them (connect_handler, lines 366-373).
LimitBodies ==
    { [recv |-> TRUE, json |-> TRUE, ssid |-> <<s>>, password |-> p] :
        s \in {Ssid2, Ssid31, Ssid32}, p \in {<<>>, <<"pw">>, <<Pw63>>, <<Pw64>>} }
SavedStores == { nvs_save(NoCreds, body, TRUE) : body \in LimitBodies }

\* nvs_get_str(handle, key, out, &length): ESP_ERR_NVS_NOT_FOUND without the
\* key, ESP_ERR_NVS_INVALID_LENGTH when length is less than the string with
\* its terminating zero byte, else the string; out is left as it was (zeroed)
\* on an error.
nvs_get_str(val, length) ==
    IF val = <<>> THEN [err |-> "NOT_FOUND", out |-> ""]
    ELSE IF nvs_required_size(val[1]) > length
         THEN [err |-> "INVALID_LENGTH", out |-> ""]
         ELSE [err |-> "OK", out |-> val[1]]

\* A caller asks has_stored_wifi() before connecting.
CallHasStoredWifi ==
    /\ pc = "stored_call"
    /\ \E open_ok \in BOOLEAN : has_wifi' = has_stored_wifi(store, open_ok)
    /\ UNCHANGED <<bootVars, recvVars, idVars, evVars, histVars, ipVars, pc, prov_caller,
                   connection_attempts, exhausted, httpdVars, drvVars, mgrVars,
                   taskVars, mqttVars, cfgVars, retryVars, loopVars, pubVars,
                   store, wifi_configured>>

\* connect_to_stored_wifi(): return when the namespace does not open or the
\* SSID cannot be read (ssid_len = 32); the password's error is not looked at
\* (password_len = 64).  With sta_netif still NULL the Wi-Fi stack is
\* initialised under ESP_ERROR_CHECK and the portal's handler is registered;
\* then station mode, the configuration, esp_wifi_start and esp_wifi_connect.
ConnectToStoredWifi ==
    /\ pc = "stored_call"
    /\ \E open_ok \in BOOLEAN :
         LET rs == nvs_get_str(store.ssid, 32)
             rp == nvs_get_str(store.password, 64)
         IN  IF ~open_ok
             THEN /\ pc' = "stored_nvs_fail"
                  /\ UNCHANGED drvVars
             ELSE IF rs.err # "OK"
             THEN /\ pc' = "stored_no_ssid"
                  /\ UNCHANGED drvVars
             ELSE IF "prov" \notin handlers /\ ev_loop
             THEN /\ pc' = "aborted"
                  /\ UNCHANGED drvVars
             ELSE /\ ev_loop' = TRUE
                  /\ handlers' = handlers \cup {"prov"}
                  /\ wifi_mode' = "STA"
                  /\ sta' = esp_wifi_connect(esp_wifi_start(
                               [sta EXCEPT !.cfg = <<[ssid |-> rs.out,
                                                      password |-> rp.out]>>]))
                  /\ evq' = start_events(sta, evq)
                  /\ pc' = "stored_done"
    /\ UNCHANGED <<bootVars, recvVars, idVars, evVars, histVars, ipVars, prov_caller,
                   has_wifi, connection_attempts, exhausted, httpdVars, mgrVars,
                   taskVars, mqttVars, cfgVars, retryVars, loopVars, pubVars,
                   store, wifi_configured>>

\* A boot on which connect_to_stored_wifi() is called, with nothing stored
\* or with what a successful POST /connect saved on an earlier boot.
InitStored ==
    /\ boots = 1
    /\ reset_reason = "power"
    /\ prev_exhausted = FALSE
    /\ store \in SavedStores \cup {NoCreds}
    /\ pc = "stored_call"
    /\ RamFresh

NextStored ==
    \/ CallHasStoredWifi
    \/ ConnectToStoredWifi
    \/ NetGotIp
    \/ NetDisconnected
    \/ DeliverEvent

SpecStored == InitStored /\ [][NextStored]_vars

\* ----------------------------------------------------------- main loop
\* The recognition loop of app_main (main.cpp:208-263), entered once
\* setup_connectivity has returned true.  pc = "operational" is the top of
\* an iteration.
mainRest == <<prov_caller, has_wifi, connection_attempts, exhausted>>

\* WiFiManager::isConnected: ap_fallback is never set, so the result is
\* whether esp_wifi_sta_get_ap_info finds the station associated.
isConnected(s) == s.st = "connected"

\* esp_wifi_stop().
esp_wifi_stop(s) == [s EXCEPT !.st = "stopped"]

\* WiFiManager::reconnect, lines 223-236: return when connected; else
\* disconnect, and connect again only when stored_ssid is not empty.
reconnect_outcome(conn_now, ssid) ==
    IF conn_now THEN "connected"
    ELSE IF Len(ssid) > 0 THEN "connect" ELSE "skip"

\* The main loop asking for a session reconnect whatever the Wi-Fi status.
mqtt_reconnect_due_any(ws, ms) == ~ms

\* main.cpp:259: if (!mqtt_status && wifi_status).
mqtt_reconnect_due(ws, ms) == ~ms /\ ws

\* The main loop restarting the device when the session reconnect fails.
loop_after_mqtt_connect_strict(ret) == IF ret THEN "operational" ELSE "restart"

\* main.cpp:261: the result of mqtt_manager.connect() is not used.
loop_after_mqtt_connect(ret) == "operational"

\* ulTaskNotifyTake returned a notification: a prediction is made; a
\* heartbeat is due every 1000 loops.
LoopNotify ==
    /\ pc = "operational"
    /\ \E hb_due \in BOOLEAN, det \in BOOLEAN :
         /\ detected' = det
         /\ pc' = IF hb_due /\ mqtt_connected THEN "lp_hb" ELSE "lp_detect"
    /\ UNCHANGED <<bootVars, recvVars, idVars, evVars, histVars, ipVars, mainRest, httpdVars, drvVars, mgrVars, taskVars,
                   mqttVars, cfgVars, retryVars, wifi_status, mqtt_status, did,
                   pubVars, store, wifi_configured>>

\* main.cpp:220-222: mqtt_manager.publishHeartbeat().
LoopHeartbeat ==
    /\ pc = "lp_hb"
    /\ publishHeartbeat
    /\ pc' = "lp_detect"
    /\ UNCHANGED <<bootVars, recvVars, idVars, evVars, histVars, ipVars, mainRest, httpdVars, drvVars, mgrVars, taskVars,
                   mqttVars, cfgVars, retryVars, loopVars, last_will, store,
                   wifi_configured>>

\* main.cpp:224-233: on a detection, the alert is published when the session
\* is connected.
LoopDetect ==
    /\ pc = "lp_detect"
    /\ pc' = IF detected /\ mqtt_connected THEN "lp_alert" ELSE "operational"
    /\ UNCHANGED <<bootVars, recvVars, idVars, evVars, histVars, ipVars, mainRest, httpdVars, drvVars, mgrVars, taskVars,
                   mqttVars, cfgVars, retryVars, loopVars, pubVars, store,
                   wifi_configured>>

\* main.cpp:234: mqtt_manager.publishAlert(&alert).
LoopAlert ==
    /\ pc = "lp_alert"
    /\ publishAlert
    /\ pc' = "operational"
    /\ UNCHANGED <<bootVars, recvVars, idVars, evVars, histVars, ipVars, mainRest, httpdVars, drvVars, mgrVars, taskVars,
                   mqttVars, cfgVars, retryVars, loopVars, last_will, store,
                   wifi_configured>>

\* main.cpp:242-252: ulTaskNotifyTake timed out; the liveness check reads
\* both statuses.
LoopCheck ==
    /\ pc = "operational"
    /\ wifi_status' = isConnected(sta)
    /\ mqtt_status' = mqtt_connected
    /\ did' = {}
    /\ pc' = IF isConnected(sta) THEN "lp_mqtt" ELSE "lp_wifi"
    /\ ip_read' = ip_address
    /\ UNCHANGED <<bootVars, recvVars, idVars, evVars, histVars, ip_address, mainRest, httpdVars, drvVars, mgrVars, taskVars,
                   mqttVars, cfgVars, retryVars, detected, pubVars, store,
                   wifi_configured>>

\* main.cpp:254-257: wifi_manager.reconnect(NULL, NULL), up to the wait of
\* WiFiManager::connect.  The event loop task runs during the 1 s delay
\* between esp_wifi_stop and connect.
LoopWifiReconnect ==
    /\ pc = "lp_wifi"
    /\ evq = <<>>
    /\ LET outcome == reconnect_outcome(isConnected(sta), stored_ssid) IN
         CASE outcome = "connected" ->
                /\ did' = did \cup {"wifi_up"}
                /\ pc' = "lp_mqtt"
                /\ UNCHANGED <<sta, evq, wifi_mode, bits_at_call>>
           [] outcome = "connect" ->
                /\ sta' = mgr_connect(esp_wifi_stop(esp_wifi_disconnect(sta)),
                                      [ssid |-> stored_ssid,
                                       password |-> stored_password])
                /\ evq' = Append(evq, "STA_START")
                /\ wifi_mode' = "STA"
                /\ did' = did \cup {"wifi_attempt"}
                /\ bits_at_call' = bits
                /\ pc' = "lp_wait"
           [] outcome = "skip" ->
                /\ sta' = esp_wifi_disconnect(sta)
                /\ pc' = "lp_mqtt"
                /\ UNCHANGED <<evq, wifi_mode, did, bits_at_call>>
    /\ UNCHANGED <<bootVars, recvVars, idVars, evVars, cleared, ipVars, mainRest, httpdVars, ev_loop, handlers, mgrVars,
                   taskVars, mqttVars, cfgVars, retryVars, wifi_status,
                   mqtt_status, detected, pubVars, store, wifi_configured>>

\* WiFiManager::connect, lines 179-191, called by reconnect: the wait ends
\* once a bit is set, and reconnect does not use the result.
LoopWifiWait ==
    /\ pc = "lp_wait"
    /\ bits # {}
    /\ pc' = "lp_mqtt"
    /\ UNCHANGED <<bootVars, recvVars, idVars, evVars, histVars, ipVars, mainRest, httpdVars, drvVars, mgrVars, taskVars,
                   mqttVars, cfgVars, retryVars, loopVars, pubVars, store,
                   wifi_configured>>

\* main.cpp:259-262: the session reconnect.  esp_mqtt_client_start fails on
\* a client that is already started.
LoopMqttReconnect ==
    /\ pc = "lp_mqtt"
    /\ IF mqtt_reconnect_due(wifi_status, mqtt_status)
       THEN \E start_ok \in BOOLEAN :
              /\ mqtt_started' = (mqtt_started \/ mqtt_connect(client, start_ok))
              /\ did' = did \cup {"mqtt_connect"}
              /\ pc' = loop_after_mqtt_connect(mqtt_connect(client, start_ok))
       ELSE /\ pc' = "operational"
            /\ UNCHANGED <<mqtt_started, did>>
    /\ UNCHANGED <<bootVars, recvVars, idVars, evVars, histVars, ipVars, mainRest, httpdVars, drvVars, mgrVars, taskVars,
                   client, config_callback, mqtt_connected, cfgVars, retryVars,
                   wifi_status, mqtt_status, detected, pubVars, store,
                   wifi_configured>>

\* What both ways into the loop share: credentials are stored, the station
\* is connected in station-only mode and the MQTT client has been started.
LoopEntry ==
    /\ boots = 1
    /\ reset_reason = "power"
    /\ prev_exhausted = FALSE
    /\ store = HomeCreds
    /\ pc = "operational"
    /\ server = FALSE
    /\ ev_loop = TRUE
    /\ wifi_mode = "STA"
    /\ sta = [st |-> "connected", cfg |-> <<[ssid |-> "home", password |-> "pw"]>>]
    /\ evq = <<>>
    /\ hpc = "idle"
    /\ exhausted = FALSE
    /\ wifi_retry_count = 0
    /\ client = TRUE
    /\ config_callback = TRUE
    /\ mqtt_connected = FALSE
    /\ mqtt_started = TRUE
    /\ cfg_msg = NoMsg
    /\ recording_duration = InitRecordMs
    /\ detection_threshold = InitThreshold
    /\ cb_calls = 0
    /\ nmsg = 0
    /\ sc_delay_ms = 0
    /\ wifi_status = FALSE
    /\ mqtt_status = FALSE
    /\ detected = FALSE
    /\ did = {}
    /\ last_will = mqtt_cfg_last_will
    /\ sent = NoSent
    /\ pub_result = <<>>
    /\ device_id = generate_device_id(FactoryMac)
    /\ mqtt_device_id = strncpy(DEVICE_ID, 31)
    /\ sta_got_ip = TRUE
    /\ test_disc = FALSE
    /\ cleared = <<>>
    /\ bits_at_call = {}
    /\ ip_address = ""
    /\ ip_read = ""
    /\ rpc = "none"
    /\ content_len = 0
    /\ recv_ret = 0
    /\ nul_index = <<>>

\* The boot found stored credentials and the first attempt connected.
LoopEntryStored ==
    /\ LoopEntry
    /\ has_wifi = TRUE
    /\ prov_caller = "none"
    /\ connection_attempts = 1
    /\ handlers = {"mgr"}
    /\ bits = {"CONNECTED"}
    /\ stored_ssid = "home"
    /\ stored_password = "pw"
    /\ wifi_configured = FALSE
    /\ httpd_starts = 0
    /\ httpd_stops = 0
    /\ req = NoBody
    /\ req_store = NoCreds
    /\ timeout = 0
    /\ success = FALSE
    /\ nreq = 0
    /\ resp = NoResp
    /\ ap_ssid = <<>>

\* The boot found no credentials and the device was provisioned through the
\* portal: the Wi-Fi manager was never initialised.
LoopEntryPortal ==
    /\ LoopEntry
    /\ has_wifi = FALSE
    /\ prov_caller = "setup"
    /\ connection_attempts = 0
    /\ handlers = {"prov"}
    /\ bits = {}
    /\ stored_ssid = ""
    /\ stored_password = ""
    /\ wifi_configured = TRUE
    /\ httpd_starts = 1
    /\ httpd_stops = 1
    /\ req = [recv |-> TRUE, json |-> TRUE, ssid |-> <<"home">>, password |-> <<"pw">>]
    /\ req_store = NoCreds
    /\ timeout = TestPolls * PollMs
    /\ success = TRUE
    /\ nreq = 1
    /\ resp = [NoResp EXCEPT !.kind = "connect", !.code = 200,
                 !.success = <<TRUE>>, !.body = req]
    /\ ap_ssid = <<ap_ssid_of(device_id)>>

InitLoop == LoopEntryStored \/ LoopEntryPortal

\* The main task, the event loop task and the session's connection events
\* (configuration messages are followed in SpecMqtt).

NextLoop ==
    \/ LoopNotify
    \/ LoopHeartbeat
    \/ LoopDetect
    \/ LoopAlert
    \/ LoopCheck
    \/ LoopWifiReconnect
    \/ LoopWifiWait
    \/ LoopMqttReconnect
    \/ NetGotIp
    \/ NetDisconnected
    \/ DeliverEvent
    \/ MqttEvConnected
    \/ MqttEvDisconnected

SpecLoop == InitLoop /\ [][NextLoop]_vars

\* The main task and the event loop task keep running.  Whether
\* ulTaskNotifyTake returns a notification or times out depends on the audio
\* task, so only the step out of the top of the iteration is fair, not the
\* choice between its two branches; the network and the broker need not
\* ever act.
SpecLoopFair ==
    /\ SpecLoop
    /\ WF_vars(LoopNotify \/ LoopCheck)
    /\ WF_vars(LoopHeartbeat)
    /\ WF_vars(LoopDetect)
    /\ WF_vars(LoopAlert)
    /\ WF_vars(LoopWifiReconnect)
    /\ WF_vars(LoopWifiWait)
    /\ WF_vars(LoopMqttReconnect)
    /\ WF_vars(DeliverEvent)

\* =============================================================== claims
\* The main task has just evaluated has_stored_wifi() in setup_connectivity
\* and nothing has touched the store since.
AfterCheck == pc = "mgr_init" \/ (pc = "prov_start" /\ prov_caller = "setup")

\* The body carries a non-empty string SSID of a network that cannot be joined.
UnjoinableBody(body) ==
    /\ body.recv /\ body.json
    /\ body.ssid # <<>>
    /\ ssid_of(body) # ""
    /\ ~Joinable(creds_of(body))

\* C1: a POST /connect with a valid SSID of a network that cannot be joined
\* answers success=false and leaves the credential store as it was when the
\* request arrived, whatever happened before.
C1_UnjoinableConnectFailsCleanly ==
    [][(hpc = "tested" /\ hpc' = "idle" /\ boots' = boots /\ UnjoinableBody(req))
         => (resp'.success = <<FALSE>> /\ store' = req_store)]_vars

\* C2: whenever POST /connect answers success=true, the submitted ssid and
\* password are in the store and has_stored_wifi() is true afterwards; a store
\* that cannot be opened never yields success=true.
C2_SuccessMeansCommitted ==
    [][(hpc = "tested" /\ hpc' = "idle" /\ boots' = boots /\ resp'.success = <<TRUE>>)
         => (/\ store' = [ssid |-> <<ssid_of(req)>>, password |-> <<password_of(req)>>]
             /\ has_stored_wifi(store', TRUE))]_vars

\* C3: once a boot has failed all 5 stored-credential attempts, the supervisor
\* clears the stored credentials and restarts (it does nothing else in that
\* boot), and the boot after that restart finds no credentials and enters
\* provisioning.
C3_ExhaustionClearsAndRestarts ==
    /\ (exhausted /\ pc # "setup_failed") => (pc = "restart" /\ store.ssid = <<>>)
    /\ (prev_exhausted /\ reset_reason = "restart" /\ pc # "app_main")
         => (~has_wifi /\ pc \in {"prov_start", "prov_wait", "prov_stop", "prov_mode"})

C5_LoopLeftAfterCommit ==
    pc = "prov_stop" => has_stored_wifi(store, TRUE)

\* C6: a configuration message with record_ms and without min_conf changes
\* only the recording duration; the confidence threshold stays as it was.
C6_MissingMinConfKeepsThreshold ==
    [][(/\ nmsg' = nmsg + 1
        /\ cfg_msg' # cfg_msg
        /\ cfg_msg'.topic = topic_config
        /\ cfg_msg'.payload.json
        /\ cfg_msg'.payload.record_ms # <<>>
        /\ cfg_msg'.payload.min_conf = <<>>
        /\ config_callback)
         => (/\ recording_duration' = cfg_msg'.payload.record_ms[1]
             /\ detection_threshold' = detection_threshold)]_vars

\* C7: stop_provisioning_server is idempotent: the underlying server is
\* stopped at most once per start (a call on a stopped server stops nothing),
\* and after every call the handle is empty.
C7_StopIdempotent ==
    /\ httpd_stops <= httpd_starts
    /\ httpd_starts = httpd_stops + (IF server THEN 1 ELSE 0)
    /\ pc \in {"prov_mode", "setup_mode"} => ~server

\* stop_provisioning_server has been called a second time, on a stopped server.
C7_Witness ==
    pc = "setup_mode" /\ httpd_starts = 1 /\ httpd_stops = 1 /\ ~server

\* C8: GET /scan answers 200 with {"networks":[]} when the scan finds no
\* network, and answers with a server error exactly when the scan call fails.
C8_ScanEmptyIsSuccess ==
    resp.kind = "scan" =>
        /\ (resp.code = 500) <=> ~resp.scan[1].err_ok
        /\ resp.code \in {200, 500}
        /\ (resp.scan[1].err_ok /\ resp.scan[1].records = <<>>)
             => (resp.code = 200 /\ resp.networks = << <<>> >>)

\* A scan that succeeded and found nothing has been answered.
C8_Witness ==
    /\ resp.kind = "scan"
    /\ resp.scan[1].err_ok
    /\ resp.scan[1].records = <<>>
    /\ resp.code = 200

\* C9: a POST /connect whose body is not received, is not JSON or has no
\* string ssid is answered 400, starts no station connection attempt and
\* leaves the store and wifi_configured unchanged.
C9_MalformedConnectRejected ==
    [][(nreq' = nreq + 1 /\ (~req'.recv \/ ~req'.json \/ req'.ssid = <<>>))
         => (/\ resp'.kind = "connect"
             /\ resp'.code = 400
             /\ resp'.body = req'
             /\ hpc' = "idle"
             /\ pc' = pc
             /\ sta' = sta
             /\ store' = store
             /\ wifi_configured' = wifi_configured)]_vars

\* A JSON body without a string ssid has been answered 400.
C9_Witness ==
    /\ resp.kind = "connect"
    /\ resp.code = 400
    /\ resp.body.recv /\ resp.body.json /\ resp.body.ssid = <<>>
    /\ nreq >= 1

\* C10: a POST /connect whose ssid is the empty string is rejected by
\* validation: no station connection attempt is started for it and nothing
\* is written to the store.
C10_EmptySsidRejected ==
    [][/\ (nreq' = nreq + 1 /\ req'.ssid = <<"">>)
          => (hpc' = "idle" /\ pc' = pc /\ sta' = sta /\ store' = store)
       /\ (hpc = "tested" /\ boots' = boots /\ req.ssid = <<"">>) => store' = store]_vars

\* The main task is in the provisioning branch of setup_connectivity, or in
\* what follows it.
StoredBranch == {"mgr_init", "sc_loop", "sc_wait", "sc_failed"}

\* C11: on every path that completes provisioning the HTTP server is stopped
\* before the Wi-Fi mode leaves AP+station, and no portal request is handled
\* after the switch: when the mode is switched the server is stopped and
\* idle, and a running or busy server implies AP+station mode.
C11_ServerStoppedBeforeModeSwitch ==
    /\ pc \in {"prov_mode", "setup_stop", "setup_mode"} => (~server /\ hpc = "idle")
    /\ (server \/ hpc # "idle") => wifi_mode = "APSTA"
    /\ (wifi_mode = "STA" /\ "prov" \in handlers) => (~server /\ hpc = "idle")

\* Provisioning has completed after a request was served: the server was
\* stopped once and the mode is station-only.
C11_Witness ==
    /\ pc = "setup_stop"
    /\ wifi_mode = "STA"
    /\ httpd_starts = 1 /\ httpd_stops = 1
    /\ nreq >= 1

\* C12: at boot the supervisor takes the one branch has_stored_wifi()
\* decides.  Without stored credentials it starts provisioning and never
\* initialises the Wi-Fi manager or attempts a stored-credential connection;
\* with stored credentials it initialises the manager and attempts the
\* connection with no access point or portal started before.
C12_OneBranchAtBoot ==
    /\ (pc # "app_main" /\ ~has_wifi)
         => (/\ pc \notin StoredBranch
             /\ connection_attempts = 0
             /\ "mgr" \notin handlers)
    /\ (pc # "app_main" /\ has_wifi) => prov_caller # "setup"
    /\ (has_wifi /\ pc \in StoredBranch)
         => (/\ httpd_starts = 0
             /\ ~server
             /\ "prov" \notin handlers
             /\ wifi_mode # "APSTA")

\* With stored credentials the first station connection attempt is under
\* way and no portal was started.
C12_Witness ==
    /\ has_wifi
    /\ pc = "sc_wait"
    /\ connection_attempts = 1
    /\ sta.st = "connecting"
    /\ httpd_starts = 0

\* Delay accumulated by the retry loop after n attempts have failed and the
\* loop goes on.
C13_DelayAfter(n) == n * RetryDelayMs

\* C13: in one boot at most 5 stored-credential attempts are made, none
\* after the first that succeeds, and each failed attempt but the fifth is
\* followed by a 3 s wait before the next.
C13_AttemptsBounded ==
    /\ [](/\ connection_attempts <= max_attempts
          /\ pc = "sc_loop" => sc_delay_ms = C13_DelayAfter(connection_attempts)
          /\ pc \in {"sc_wait", "sc_failed"}
               => sc_delay_ms = C13_DelayAfter(connection_attempts - 1)
          /\ exhausted => (/\ connection_attempts = max_attempts
                           /\ sc_delay_ms = C13_DelayAfter(max_attempts - 1))
          /\ (has_wifi /\ pc \in {"mqtt_init", "mqtt_connect", "operational"})
               => sc_delay_ms = C13_DelayAfter(connection_attempts - 1))
    /\ [][(connection_attempts' # connection_attempts /\ boots' = boots)
            => (/\ pc = "sc_loop"
                /\ connection_attempts' = connection_attempts + 1
                /\ connection_attempts < max_attempts)]_vars

\* The fifth attempt has failed after four waits of 3 s.
C13_Witness ==
    /\ exhausted
    /\ connection_attempts = max_attempts
    /\ sc_delay_ms = C13_DelayAfter(max_attempts - 1)

\* Positions of the main task inside the recognition loop.
LoopPcs == {"operational", "lp_hb", "lp_detect", "lp_alert", "lp_wifi",
            "lp_wait", "lp_mqtt"}

\* C14: in the main loop the session reconnect is made only in a liveness
\* check that found Wi-Fi connected and the session disconnected, and the
\* loop never starts the access point or the portal again.
C14_SessionReconnectNeedsWifi ==
    /\ []("mqtt_connect" \in did => (wifi_status /\ ~mqtt_status))
    /\ [][("mqtt_connect" \in did' /\ "mqtt_connect" \notin did) => pc = "lp_mqtt"]_vars
    /\ [](pc \in LoopPcs =>
           (~server /\ hpc = "idle" /\ wifi_mode = "STA"
              /\ httpd_starts = httpd_stops))

\* A liveness check found Wi-Fi connected and the session down and made the
\* session reconnect.
C14_Witness ==
    /\ "mqtt_connect" \in did
    /\ wifi_status /\ ~mqtt_status
    /\ pc = "operational"

\* C15: every liveness check that finds the Wi-Fi link down starts a station
\* connection attempt with the stored credentials (unless the link is back
\* when reconnect looks again), whichever way the boot took.
C15_LinkDownStartsAttempt ==
    (pc = "lp_mqtt" /\ ~wifi_status) => (did \cap {"wifi_attempt", "wifi_up"} # {})

C17_PublishNeedsSession ==
    [][(/\ ~(mqtt_connected /\ client)
        /\ (pub_result' # pub_result \/ sent'.alerts # sent.alerts
              \/ sent'.hb # sent.hb))
         => (pub_result' = <<FALSE>> /\ sent' = sent)]_vars

\* A publish call on an initialised, unconnected session returned false and
\* nothing was ever given to the client.
C17_Witness ==
    /\ pub_result = <<FALSE>>
    /\ client /\ ~mqtt_connected
    /\ sent = NoSent

\* C18: a started MQTT client was created by initialize() with the retained,
\* QoS 1 last will "offline" on the device's status topic.
C18_StartedClientHasLastWill ==
    mqtt_started =>
        /\ client
        /\ last_will = <<[topic |-> <<"devices", "esp32_wwd_001", "status">>,
                          msg |-> "offline", qos |-> 1, retain |-> TRUE]>>

\* The client has been started and the session is connected.
C18_Witness ==
    mqtt_started /\ mqtt_connected /\ last_will # <<>>

\* C19: every status publication is retained with QoS 1; while the session
\* is connected the last status published is "online" (after the first
\* connection and after every reconnection), and after disconnect() it is
\* "offline".
C19_StatusTracksSession ==
    /\ sent.status # <<>> => (sent.status[1].qos = 1 /\ sent.status[1].retain)
    /\ mqtt_connected => (sent.status # <<>> /\ sent.status[1].payload = "online")
    /\ (~client /\ sent.status # <<>>) => sent.status[1].payload = "offline"

\* disconnect() was called after the session connected, was lost and
\* connected again.
C19_Witness ==
    /\ nmsg = 3
    /\ ~client /\ ~mqtt_connected
    /\ sent.status = <<[payload |-> "offline", qos |-> 1, retain |-> TRUE]>>

\* C20: a configuration payload that does not parse as JSON is dropped: the
\* callback is not invoked, the recording duration and the threshold keep
\* their values and the connected state is unchanged.
C20_MalformedConfigDropped ==
    [][(nmsg' = nmsg + 1 /\ cfg_msg' # cfg_msg /\ ~cfg_msg'.payload.json)
         => (/\ cb_calls' = cb_calls
             /\ recording_duration' = recording_duration
             /\ detection_threshold' = detection_threshold
             /\ mqtt_connected' = mqtt_connected)]_vars

\* A payload that is not JSON arrived on the configuration topic while a
\* callback was set, and the callback has not run.
C20_Witness ==
    /\ cfg_msg.topic = topic_config
    /\ ~cfg_msg.payload.json
    /\ config_callback /\ mqtt_connected
    /\ cb_calls = 0
    /\ recording_duration = InitRecordMs /\ detection_threshold = InitThreshold

\* C21: a parseable configuration message that reaches the callback replaces
\* both fields together, each by the message's number or by the fixed default
\* for a missing one: the resulting pair is a function of that message alone
\* and keeps nothing of the configuration before it.
C21_ConfigReplacedWhole ==
    [][(/\ nmsg' = nmsg + 1
        /\ cb_calls' = cb_calls + 1)
         => (/\ cfg_msg'.payload.json
             /\ recording_duration' =
                  (IF cfg_msg'.payload.record_ms # <<>>
                   THEN cfg_msg'.payload.record_ms[1] ELSE 5000)
             /\ detection_threshold' =
                  (IF cfg_msg'.payload.min_conf # <<>>
                   THEN cfg_msg'.payload.min_conf[1] ELSE 75)
             /\ \A other \in ConfigPayloads :
                  (other.record_ms = cfg_msg'.payload.record_ms
                     /\ other.min_conf = cfg_msg'.payload.min_conf /\ other.json)
                    => (/\ recording_duration' = config_of(other).record_ms
                        /\ detection_threshold' = config_of(other).min_conf))]_vars

\* A second message, carrying only min_conf, was handled after one that had
\* set the recording duration to 7000 or 3000: the duration is the default
\* again.
C21_Witness ==
    /\ cb_calls = 2
    /\ cfg_msg.topic = topic_config
    /\ cfg_msg.payload = [json |-> TRUE, record_ms |-> <<>>, min_conf |-> <<90>>]
    /\ recording_duration = DefaultRecordMs
    /\ detection_threshold = 90

\* C22: in every GET /status response wifi_configured and wifi_connected are
\* equal, and both are true exactly when an address-assigned event for the
\* station had been processed in this boot when the request was handled.
C22_StatusMirrorsGotIp ==
    resp.kind = "status" =>
        /\ resp.status[1].wifi_configured = resp.status[1].wifi_connected
        /\ resp.status[1].wifi_configured = resp.got_ip[1]

\* A status request was answered after the station had got its address, and
\* reported both flags true.
C22_Witness ==
    /\ resp.kind = "status"
    /\ resp.got_ip = <<TRUE>>
    /\ resp.status = <<[wifi_configured |-> TRUE, wifi_connected |-> TRUE]>>
    /\ server

\* The last four characters of an identifier.
Last4(id) == SubSeq(id, Len(id) - 3, Len(id))

\* C23: one device identity is used throughout a boot: the identifier whose
\* last four characters name the provisioning access point is the identifier
\* that namespaces the MQTT topics and is written into alert payloads.
C23_OneIdentity ==
    /\ (ap_ssid # <<>> /\ mqtt_device_id # "")
         => (/\ device_id = mqtt_device_id
             /\ ap_ssid[1] = "WakeGuard-Setup-" \o Last4(mqtt_device_id)
             /\ topic_alerts = <<"alerts", device_id>>
             /\ topic_config = <<"config", device_id>>)
    /\ (ap_ssid # <<>> /\ sent.alerts # <<>>)
         => sent.alerts[1].payload.id = device_id

\* C24: round trip of credentials: for an SSID of 2 to 32 bytes and a
\* password of 0 to 64 bytes saved by a successful POST /connect,
\* connect_to_stored_wifi() (once the store has opened) loads exactly that
\* SSID and password and starts a station connection with them; when no SSID
\* is stored it starts no connection.
C24_StoredRoundTrip ==
    /\ pc = "stored_done"
         => (/\ store.ssid # <<>>
             /\ sta.cfg = <<[ssid |-> store.ssid[1], password |-> store.password[1]]>>
             /\ sta.st # "stopped")
    /\ pc = "stored_no_ssid" => (store.ssid = <<>> /\ sta = NoSta)

\* C25: clear_stored_wifi() never fails its caller, which goes on to start
\* provisioning; when the store could not be opened it is left as it was, and
\* when it could, has_stored_wifi() is false from then on, until a POST
\* /connect test succeeds again.
C25_ClearBestEffort ==
    cleared # <<>> =>
        /\ prov_caller = "fallback" /\ pc # "setup_failed"
        /\ (~cleared[1].open_ok /\ pc = "prov_start") => store = cleared[1].before
        /\ (cleared[1].open_ok /\ (pc = "prov_start" \/ ~success))
             => (~has_stored_wifi(store, TRUE) /\ ~has_stored_wifi(store, FALSE))

\* Stored credentials were erased after the boot failed to connect with
\* them, and the portal now runs on the empty store.
C25_Witness ==
    /\ cleared = <<[open_ok |-> TRUE, before |-> HomeCreds]>>
    /\ store = NoCreds
    /\ pc = "prov_wait" /\ server
    /\ nreq >= 1 /\ ~success

\* The event loop task hands the next event to the Wi-Fi manager's callbacks.
MgrHandles(e) ==
    evq # <<>> /\ evq' = Tail(evq) /\ Head(evq) = e /\ "mgr" \in handlers

\* C26: the low-level retry counter stays within 0..3: an address-assigned
\* event resets it, each of the next 3 disconnected events starts an
\* immediate reconnect and counts one, and a disconnected event at 3 raises
\* the failure signal without reconnecting.
C26_RetryCounterBounded ==
    /\ [](wifi_retry_count \in 0..3)
    /\ [][MgrHandles("GOT_IP") => wifi_retry_count' = 0]_vars
    /\ [][MgrHandles("STA_DISCONNECTED") =>
            IF wifi_retry_count < 3
            THEN /\ wifi_retry_count' = wifi_retry_count + 1
                 /\ sta'.st = "connecting"
                 /\ bits' = bits
            ELSE /\ wifi_retry_count' = 3
                 /\ bits' = bits \cup {"FAIL"}
                 /\ sta' = sta]_vars
    /\ [][wifi_retry_count' # wifi_retry_count => "mgr" \in handlers]_vars

\* In the main loop the link was lost, three reconnects failed, and the
\* fourth disconnected event raised the failure signal.
C26_Witness ==
    /\ wifi_retry_count = 3
    /\ "FAIL" \in bits
    /\ sta.st = "idle"
    /\ pc \in LoopPcs

\* C27: every call to WiFiManager::connect returns: its wait for the result
\* ends, even when the network delivers neither an address nor enough
\* disconnects to use up the retries.
C27_ConnectReturns ==
    (pc = "sc_wait") ~> (pc # "sc_wait")

\* C28: the result of WiFiManager::connect reflects only events of that
\* call: it returns true only when the address-assigned signal was raised
\* after the call started, and false only when the failure signal was raised
\* after the call started.
C28_ResultFromOwnEvents ==
    [][(pc = "sc_wait" /\ pc' # "sc_wait" /\ boots' = boots) =>
         IF pc' = "mqtt_init"
         THEN "CONNECTED" \in bits \ bits_at_call
         ELSE "FAIL" \in bits \ bits_at_call]_vars

\* C29: once a station-disconnected event has been handled while
\* test_wifi_connection is waiting, the wait stops consuming its timeout
\* (it ends before the timeout expires) and the test reports failure; a
\* power cycle during the wait is not a step of the wait.
C29_DisconnectUnblocksTest ==
    [][(hpc = "testing" /\ test_disc /\ timeout > 0 /\ boots' = boots)
          => /\ timeout' = timeout
             /\ (hpc' = "tested" => ~success')]_vars

\* C30: whenever the liveness check reads isConnected() as true, the
\* address read by getIPAddress() in the same check is not empty.
C30_ConnectedHasAddress ==
    (pc \in {"lp_mqtt", "lp_wifi", "lp_wait"} /\ wifi_status) => ip_read # ""


\* C31: while the main loop runs, whenever the Wi-Fi link or the messaging
\* session is down, a liveness check eventually runs (the loop reaches the
\* reconnect policy), whether or not audio notifications keep arriving.
C31_CheckEventuallyRuns ==
    (~isConnected(sta) \/ ~mqtt_connected) ~> (pc \in {"lp_wifi", "lp_mqtt"})


\* C32: clear_stored_wifi is called only on a boot whose stored-credential
\* connection attempts were exhausted; no other failure of
\* setup_connectivity leads to the stored credentials being cleared.
C32_ClearedOnlyAfterExhaustion ==
    cleared # <<>> => (exhausted /\ connection_attempts = max_attempts)


\* C33: provisioning never stays in its wait loop with no HTTP server able
\* to receive credentials: when httpd_start failed, the wait is left for a
\* recovery action.
C33_NoWaitWithoutServer ==
    (pc = "prov_wait" /\ ~server) ~> (pc # "prov_wait")


\* C34: when setup_connectivity failed after WiFiManager::initialize had
\* succeeded, the fallback call of start_wifi_ap_provisioning reaches its
\* wait loop; it does not abort on a second creation of the default event
\* loop or a second initialisation of the Wi-Fi driver.
C34_FallbackReachesWait ==
    [][(/\ pc = "prov_start" /\ prov_caller = "fallback"
        /\ "mgr" \in handlers
        /\ pc' # pc /\ boots' = boots)
          => pc' = "prov_wait"]_vars


\* C35: for every request content length, the index at which
\* connect_handler writes the string terminator is inside its 512-byte
\* receive buffer, that is at most 511.
C35_TerminatorInsideBuffer ==
    nul_index # <<>> => (nul_index[1] >= 0 /\ nul_index[1] <= ContentSize - 1)


\* C36: the configuration handler runs only for data events whose topic is
\* exactly the configuration topic; an event with an empty topic or with a
\* proper prefix of the configuration topic leaves the configuration alone.
C36_ConfigOnlyOnExactTopic ==
    [][(cb_calls' # cb_calls
        \/ recording_duration' # recording_duration
        \/ detection_threshold' # detection_threshold)
          => cfg_msg'.topic = topic_config]_vars

====
